---- MODULE Spec2Model ----
\* Event replication triggers of calendar-resources (OnEvent and its helpers),
\* modelled as a state machine over the event store, the calendar list and the
\* transactions waiting to be applied by the host; the account trigger
\* OnPersonAccountCreate; and the content restore functions of the dev tool
\* (markup.ts) over the blob storage.
EXTENDS Integers, Sequences, FiniteSets, TLC

VARIABLES
    events,      \* the Event documents of the store, in store result order
    calendars,   \* the Calendar documents of the store, in store result order
    pending,     \* transactions emitted by a trigger and not yet applied
    last,        \* the transaction handled last, with what the trigger returned
    chosen,      \* the last calendar selection: arguments and result
    handled,     \* the account creations handled, each with what the trigger returned
    storage,     \* the blob storage: a function from the ids of the blobs it holds
    run,         \* the last call of a restore function: arguments and result
    done         \* the documents a call that was no dry run has restored

vars == <<events, calendars, pending, last, chosen, handled, storage, run, done>>

\* The variables of the account trigger and of the restore tool, which the
\* event triggers leave alone.
apart == <<handled, storage, run, done>>

\* ---------------------------------------------------------------- bounds
MaxPerson == 4      \* persons are 1..MaxPerson; person 1 has no account
MaxParts == 2       \* longest participant list a client sends
MaxId == MaxParts + 2   \* document identifiers in use at once: an owner event, its copies and one copy that replaces another
MaxCalList == 3     \* longest calendar list handed to getCalendar

\* ---------------------------------------------------------------- values
Undef == 0                      \* an absent reference
SystemAccount == 99             \* the account control.txFactory attributes to by default
UndefStr == "undefined"         \* an absent string field
Persons == 1 .. MaxPerson
AccountIdOf(p) == 10 + p
EventIdOf(id) == 100 + id
Titles == {"t1"}                \* titles an update sets; events start as "t0"
Visibilities == {"public"}      \* visibilities an update sets; events start public

Range(s) == {s[i] : i \in DOMAIN s}

\* a ?? b
Coalesce(a, b) == IF a # Undef THEN a ELSE b

\* The PersonAccount documents: every person but person 1 has one account.
accounts == [i \in 1 .. (MaxPerson - 1) |-> [_id |-> AccountIdOf(i + 1), person |-> i + 1]]

AccountIds == {accounts[i]._id : i \in DOMAIN accounts}

\* Duplicate-free participant lists of bounded length.
ParticipantLists ==
    {s \in UNION {[1 .. n -> Persons] : n \in 0 .. MaxParts} :
        \A i, j \in DOMAIN s : i # j => s[i] # s[j]}

\* The record an attached document hangs on: attachedTo, attachedToClass, collection.
ParentFor(acc) ==
    IF acc = AccountIdOf(2)
    THEN [attachedTo |-> "issue1", attachedToClass |-> "Issue", collection |-> "events"]
    ELSE [attachedTo |-> "space1", attachedToClass |-> "Space", collection |-> "events"]
\* The accounts whose clients create events.
Creators == {AccountIdOf(2)}
NoParent == [attachedTo |-> UndefStr, attachedToClass |-> UndefStr, collection |-> UndefStr]

NoOps == [keys |-> {}, title |-> UndefStr, visibility |-> UndefStr, participants |-> <<>>]
NoAttrs ==
    [_id |-> Undef, eventId |-> Undef, access |-> UndefStr, participants |-> <<>>,
     calendar |-> Undef, createdBy |-> Undef, modifiedBy |-> Undef,
     title |-> UndefStr, visibility |-> UndefStr]
NoEvent ==
    [_id |-> Undef, eventId |-> Undef, access |-> UndefStr, participants |-> <<>>,
     calendar |-> Undef, createdBy |-> Undef, modifiedBy |-> Undef,
     title |-> UndefStr, visibility |-> UndefStr,
     attachedTo |-> UndefStr, attachedToClass |-> UndefStr, collection |-> UndefStr]
NoTx ==
    [kind |-> "none", objectId |-> Undef, attributes |-> NoAttrs, operations |-> NoOps,
     modifiedBy |-> Undef, parent |-> NoParent]
NoLast == [tx |-> NoTx, out |-> <<>>, removed |-> NoEvent, from |-> "none", root |-> NoTx]
NoChoice == [person |-> Undef, list |-> <<>>, result |-> Undef]

\* The empty blob storage.
NoBlobs == [id \in {} |-> {}]
NoRun ==
    [op |-> "none", dryRun |-> FALSE, fails |-> FALSE, doc |-> <<>>, result |-> FALSE,
     restoredCnt |-> 0, before |-> NoBlobs, prior |-> {}]

\* The account trigger and the restore tool at rest.
Idle == handled = <<>> /\ storage = NoBlobs /\ run = NoRun /\ done = {}

\* ---------------------------------------------------------------- host
\* First element of s satisfying Test, or none.
FindFirst(s, Test(_), none) ==
    IF \E i \in DOMAIN s : Test(s[i])
    THEN s[CHOOSE i \in DOMAIN s : Test(s[i]) /\ \A j \in 1 .. (i - 1) : ~Test(s[j])]
    ELSE none

\* generateId: an identifier no document and no transaction in flight carries.
\* FreeIds lists them in increasing order; the k-th document a trigger creates
\* takes the k-th.
RECURSIVE SortedSeq(_)
SortedSeq(S) ==
    IF S = {} THEN <<>>
    ELSE LET m == CHOOSE x \in S : \A y \in S : x <= y
         IN  <<m>> \o SortedSeq(S \ {m})

FreeIds(store, txs) ==
    SortedSeq((1 .. MaxId) \ ({store[i]._id : i \in DOMAIN store}
                              \cup {txs[i].objectId : i \in DOMAIN txs}))

\* TxFactory.createTxCreateDoc / createTxUpdateDoc / createTxRemoveDoc
createTxCreateDoc(attributes, objectId, modifiedBy) ==
    [kind |-> "create", objectId |-> objectId, attributes |-> attributes,
     operations |-> NoOps, modifiedBy |-> modifiedBy, parent |-> NoParent]
createTxUpdateDoc(objectId, operations, modifiedBy) ==
    [kind |-> "update", objectId |-> objectId, attributes |-> NoAttrs,
     operations |-> operations, modifiedBy |-> modifiedBy, parent |-> NoParent]
createTxRemoveDoc(objectId, modifiedBy) ==
    [kind |-> "remove", objectId |-> objectId, attributes |-> NoAttrs,
     operations |-> NoOps, modifiedBy |-> modifiedBy, parent |-> NoParent]

\* TxFactory.createTxCollectionCUD: the inner transaction scoped to a parent record.
\* The wrapper carries the attribution of the inner transaction in every call
\* of the triggers, and extractTx hands the inner transaction on.
createTxCollectionCUD(attachedToClass, attachedTo, collection, innerTx) ==
    [innerTx EXCEPT
        !.parent = [attachedTo |-> attachedTo, attachedToClass |-> attachedToClass,
                    collection |-> collection]]

\* TxProcessor.createDoc2Doc(TxProcessor.extractTx(tx)): the document a create
\* transaction describes. Identity and attribution come from the transaction,
\* the attachment from the collection wrapper.
createDoc2Doc(tx) ==
    [_id |-> tx.objectId,
     eventId |-> tx.attributes.eventId,
     access |-> tx.attributes.access,
     participants |-> tx.attributes.participants,
     calendar |-> tx.attributes.calendar,
     createdBy |-> tx.modifiedBy,
     modifiedBy |-> tx.modifiedBy,
     title |-> tx.attributes.title,
     visibility |-> tx.attributes.visibility,
     attachedTo |-> tx.parent.attachedTo,
     attachedToClass |-> tx.parent.attachedToClass,
     collection |-> tx.parent.collection]

\* The document after an update transaction.
updateDoc(doc, tx) ==
    [doc EXCEPT
        !.title = IF "title" \in tx.operations.keys THEN tx.operations.title ELSE @,
        !.visibility = IF "visibility" \in tx.operations.keys THEN tx.operations.visibility ELSE @,
        !.participants = IF "participants" \in tx.operations.keys
                         THEN tx.operations.participants ELSE @,
        !.modifiedBy = tx.modifiedBy]

\* The store after the host applied tx.
ApplyTx(store, tx) ==
    CASE tx.kind = "create" -> Append(store, createDoc2Doc(tx))
      [] tx.kind = "update" ->
            [i \in DOMAIN store |->
                IF store[i]._id = tx.objectId THEN updateDoc(store[i], tx) ELSE store[i]]
      [] tx.kind = "remove" -> SelectSeq(store, LAMBDA d : d._id # tx.objectId)
      [] OTHER -> store

\* control.removedMap.get(id): the last state of a document removed by tx.
RemovedDoc(store, tx) ==
    IF tx.kind = "remove" THEN FindFirst(store, LAMBDA d : d._id = tx.objectId, NoEvent) ELSE NoEvent

\* control.findAll(calendar.class.Calendar, { hidden: false })
VisibleCalendars(cals) == SelectSeq(cals, LAMBDA c : ~c.hidden)

\* ---------------------------------------------------------------- triggers
\* The account a calendar belongs to: c.createdBy ?? c.modifiedBy
CalendarAccount(c) == Coalesce(c.createdBy, c.modifiedBy)

\* getCalendar without the filter on the calendar's account.
getCalendarUnfiltered(cals, person) ==
    LET defaultExternal == FindFirst(cals, LAMBDA c : c.default, [_id |-> Undef])
    IN  IF defaultExternal._id # Undef THEN defaultExternal._id
        ELSE IF Len(cals) > 0 THEN cals[1]._id ELSE Undef

\* getCalendar without the preference for the default external calendar.
getCalendarFirst(cals, person) ==
    LET filtered == SelectSeq(cals, LAMBDA c : CalendarAccount(c) = person)
    IN  IF Len(filtered) > 0 THEN filtered[1]._id ELSE Undef

getCalendar(cals, person) ==
    LET filtered == SelectSeq(cals, LAMBDA c : CalendarAccount(c) = person)
        defaultExternal == FindFirst(filtered, LAMBDA c : c.default, [_id |-> Undef])
    IN  IF defaultExternal._id # Undef THEN defaultExternal._id
        ELSE IF Len(filtered) > 0 THEN filtered[1]._id ELSE Undef

\* getEventPerson without the lookup of the copy's calendar.
getEventPersonNoCalendar(current, cals) ==
    LET accId == Coalesce(current.createdBy, current.modifiedBy)
        acc == FindFirst(accounts, LAMBDA a : a._id = accId, [_id |-> Undef, person |-> Undef])
    IN  IF acc._id = Undef THEN Undef ELSE acc.person

getEventPerson(current, cals) ==
    LET calendar == FindFirst(cals, LAMBDA c : c._id = current.calendar, [_id |-> Undef])
        accId == Coalesce(current.createdBy, current.modifiedBy)
        acc == FindFirst(accounts, LAMBDA a : a._id = accId, [_id |-> Undef, person |-> Undef])
    IN  IF calendar._id = Undef THEN Undef
        ELSE IF acc._id = Undef THEN Undef
        ELSE acc.person

\* const { _class, space, attachedTo, attachedToClass, collection, ...attr } = event
EventData(event) ==
    [_id |-> event._id, eventId |-> event.eventId, access |-> event.access,
     participants |-> event.participants, calendar |-> event.calendar,
     createdBy |-> event.createdBy, modifiedBy |-> event.modifiedBy,
     title |-> event.title, visibility |-> event.visibility]

\* CopyTx that leaves the access of the owner event in the copy.
CopyTxKeepAccess(event, acc, calendar, objectId) ==
    createTxCollectionCUD(event.attachedToClass, event.attachedTo, event.collection,
        createTxCreateDoc([EventData(event) EXCEPT !.calendar = calendar], objectId, acc._id))

\* CopyTx that leaves the copy in the calendar of the owner event.
CopyTxOwnerCalendar(event, acc, calendar, objectId) ==
    createTxCollectionCUD(event.attachedToClass, event.attachedTo, event.collection,
        createTxCreateDoc([EventData(event) EXCEPT !.access = "reader"], objectId, acc._id))

\* The transaction that creates the copy of event for account acc in calendar.
CopyTx(event, acc, calendar, objectId) ==
    createTxCollectionCUD(event.attachedToClass, event.attachedTo, event.collection,
        createTxCreateDoc([EventData(event) EXCEPT !.calendar = calendar, !.access = "reader"],
                          objectId, acc._id))

\* The body of the loop over participants shared by onEventCreate and
\* eventForNewParticipants: res after the participants parts[i..] are handled.
RECURSIVE ParticipantLoop(_, _, _, _, _, _)
ParticipantLoop(parts, i, event, cals, ids, res) ==
    IF i > Len(parts) THEN res
    ELSE
        LET found == SelectSeq(accounts, LAMBDA a : a.person \in Range(event.participants))
            acc == FindFirst(found, LAMBDA a : a.person = parts[i],
                             [_id |-> Undef, person |-> Undef])
            calendar == getCalendar(cals, acc._id)
        IN  IF acc._id = Undef THEN ParticipantLoop(parts, i + 1, event, cals, ids, res)
            ELSE IF acc._id = Coalesce(event.createdBy, event.modifiedBy)
                 THEN ParticipantLoop(parts, i + 1, event, cals, ids, res)
            ELSE IF calendar = Undef
                 THEN ParticipantLoop(parts, i + 1, event, cals, ids, res)
            ELSE ParticipantLoop(parts, i + 1, event, cals, ids,
                    Append(res, CopyTx(event, acc, calendar, ids[Len(res) + 1])))

\* ParticipantLoop that gives up at the first participant without account or
\* without calendar.
RECURSIVE ParticipantLoopStop(_, _, _, _, _, _)
ParticipantLoopStop(parts, i, event, cals, ids, res) ==
    IF i > Len(parts) THEN res
    ELSE
        LET found == SelectSeq(accounts, LAMBDA a : a.person \in Range(event.participants))
            acc == FindFirst(found, LAMBDA a : a.person = parts[i],
                             [_id |-> Undef, person |-> Undef])
            calendar == getCalendar(cals, acc._id)
        IN  IF acc._id = Undef THEN res
            ELSE IF acc._id = Coalesce(event.createdBy, event.modifiedBy)
                 THEN ParticipantLoopStop(parts, i + 1, event, cals, ids, res)
            ELSE IF calendar = Undef THEN res
            ELSE ParticipantLoopStop(parts, i + 1, event, cals, ids,
                    Append(res, CopyTx(event, acc, calendar, ids[Len(res) + 1])))

\* eventForNewParticipants that walks all participants of the event.
eventForNewParticipantsAll(event, newParticipants, cals, ids) ==
    ParticipantLoop(event.participants, 1, event, cals, ids, <<>>)

eventForNewParticipants(event, newParticipants, cals, ids) ==
    ParticipantLoop(newParticipants, 1, event, cals, ids, <<>>)

\* onEventCreate that gives up at the first unresolved participant.
onEventCreateStop(ctx, cals, ids) ==
    LET event == createDoc2Doc(ctx)
    IN  IF event.access # "owner" THEN <<>>
        ELSE ParticipantLoopStop(event.participants, 1, event, cals, ids, <<>>)

\* onEventCreate without the test of the event's access.
onEventCreateAnyAccess(ctx, cals, ids) ==
    LET event == createDoc2Doc(ctx)
    IN  ParticipantLoop(event.participants, 1, event, cals, ids, <<>>)

onEventCreate(ctx, cals, ids) ==
    LET event == createDoc2Doc(ctx)
    IN  IF event.access # "owner" THEN <<>>
        ELSE ParticipantLoop(event.participants, 1, event, cals, ids, <<>>)

\* OtherOps that leaves visibility among the operations.
OtherOpsAll(ops) == ops

\* const { visibility, ...otherOps } = ops
OtherOps(ops) == [ops EXCEPT !.keys = @ \ {"visibility"}, !.visibility = UndefStr]

\* CopyLoop that does not pass over the edited event itself.
RECURSIVE CopyLoopNoSelfSkip(_, _, _, _, _, _, _)
CopyLoopNoSelfSkip(evs, i, event, cals, otherOps, res, newParticipants) ==
    IF i > Len(evs) THEN [res |-> res, newParticipants |-> newParticipants]
    ELSE
        LET ev == evs[i]
            person == getEventPerson(ev, cals)
        IN  IF person = Undef \/ person \notin Range(event.participants)
            THEN CopyLoopNoSelfSkip(evs, i + 1, event, cals, otherOps,
                    Append(res, createTxCollectionCUD(ev.attachedToClass, ev.attachedTo,
                                    ev.collection, createTxRemoveDoc(ev._id, SystemAccount))),
                    newParticipants)
            ELSE CopyLoopNoSelfSkip(evs, i + 1, event, cals, otherOps,
                    Append(res, createTxCollectionCUD(ev.attachedToClass, ev.attachedTo,
                                    ev.collection,
                                    createTxUpdateDoc(ev._id, otherOps, SystemAccount))),
                    SelectSeq(newParticipants, LAMBDA p : p # person))

\* CopyLoop that leaves a copy alone when its holder does not resolve.
RECURSIVE CopyLoopSkipUnresolved(_, _, _, _, _, _, _)
CopyLoopSkipUnresolved(evs, i, event, cals, otherOps, res, newParticipants) ==
    IF i > Len(evs) THEN [res |-> res, newParticipants |-> newParticipants]
    ELSE
        LET ev == evs[i]
            person == getEventPerson(ev, cals)
        IN  IF ev._id = event._id \/ person = Undef
            THEN CopyLoopSkipUnresolved(evs, i + 1, event, cals, otherOps, res, newParticipants)
            ELSE IF person \notin Range(event.participants)
            THEN CopyLoopSkipUnresolved(evs, i + 1, event, cals, otherOps,
                    Append(res, createTxCollectionCUD(ev.attachedToClass, ev.attachedTo,
                                    ev.collection, createTxRemoveDoc(ev._id, SystemAccount))),
                    newParticipants)
            ELSE CopyLoopSkipUnresolved(evs, i + 1, event, cals, otherOps,
                    Append(res, createTxCollectionCUD(ev.attachedToClass, ev.attachedTo,
                                    ev.collection,
                                    createTxUpdateDoc(ev._id, otherOps, SystemAccount))),
                    SelectSeq(newParticipants, LAMBDA p : p # person))

\* The loop of onEventUpdate over the copies evs[i..]: the transactions pushed
\* and what is left of newParticipants.
RECURSIVE CopyLoop(_, _, _, _, _, _, _)
CopyLoop(evs, i, event, cals, otherOps, res, newParticipants) ==
    IF i > Len(evs) THEN [res |-> res, newParticipants |-> newParticipants]
    ELSE
        LET ev == evs[i]
            person == getEventPerson(ev, cals)
        IN  IF ev._id = event._id
            THEN CopyLoop(evs, i + 1, event, cals, otherOps, res, newParticipants)
            ELSE IF person = Undef \/ person \notin Range(event.participants)
            THEN CopyLoop(evs, i + 1, event, cals, otherOps,
                    Append(res, createTxCollectionCUD(ev.attachedToClass, ev.attachedTo,
                                    ev.collection, createTxRemoveDoc(ev._id, SystemAccount))),
                    newParticipants)
            ELSE CopyLoop(evs, i + 1, event, cals, otherOps,
                    Append(res, createTxCollectionCUD(ev.attachedToClass, ev.attachedTo,
                                    ev.collection,
                                    createTxUpdateDoc(ev._id, otherOps, SystemAccount))),
                    SelectSeq(newParticipants, LAMBDA p : p # person))

\* onEventUpdate that returns the creations ahead of the updates and removals.
onEventUpdateCreationsFirst(ctx, store, cals, ids) ==
    LET otherOps == OtherOps(ctx.operations)
        event == FindFirst(store, LAMBDA d : d._id = ctx.objectId, NoEvent)
        evs == SelectSeq(store, LAMBDA d : d.eventId = event.eventId)
        loop == CopyLoop(evs, 1, event, cals, otherOps, <<>>, event.participants)
    IN  IF otherOps.keys = {} THEN <<>>
        ELSE IF event._id = Undef THEN <<>>
        ELSE IF event.access # "owner" THEN <<>>
        ELSE IF Len(loop.newParticipants) = 0 THEN loop.res
        ELSE eventForNewParticipants(event, loop.newParticipants, cals, ids) \o loop.res

\* onEventUpdate that hands the operations on as received.
onEventUpdateRawOps(ctx, store, cals, ids) ==
    LET otherOps == OtherOps(ctx.operations)
        event == FindFirst(store, LAMBDA d : d._id = ctx.objectId, NoEvent)
        evs == SelectSeq(store, LAMBDA d : d.eventId = event.eventId)
        loop == CopyLoop(evs, 1, event, cals, ctx.operations, <<>>, event.participants)
    IN  IF otherOps.keys = {} THEN <<>>
        ELSE IF event._id = Undef THEN <<>>
        ELSE IF event.access # "owner" THEN <<>>
        ELSE IF Len(loop.newParticipants) = 0 THEN loop.res
        ELSE loop.res \o eventForNewParticipants(event, loop.newParticipants, cals, ids)

\* onEventUpdate that creates copies for all participants, not the new ones.
onEventUpdateAllParticipants(ctx, store, cals, ids) ==
    LET otherOps == OtherOps(ctx.operations)
        event == FindFirst(store, LAMBDA d : d._id = ctx.objectId, NoEvent)
        evs == SelectSeq(store, LAMBDA d : d.eventId = event.eventId)
        loop == CopyLoop(evs, 1, event, cals, otherOps, <<>>, event.participants)
    IN  IF otherOps.keys = {} THEN <<>>
        ELSE IF event._id = Undef THEN <<>>
        ELSE IF event.access # "owner" THEN <<>>
        ELSE loop.res \o eventForNewParticipants(event, event.participants, cals, ids)

onEventUpdate(ctx, store, cals, ids) ==
    LET otherOps == OtherOps(ctx.operations)
        event == FindFirst(store, LAMBDA d : d._id = ctx.objectId, NoEvent)
        evs == SelectSeq(store, LAMBDA d : d.eventId = event.eventId)
        loop == CopyLoop(evs, 1, event, cals, otherOps, <<>>, event.participants)
    IN  IF otherOps.keys = {} THEN <<>>
        ELSE IF event._id = Undef THEN <<>>
        ELSE IF event.access # "owner" THEN <<>>
        ELSE IF Len(loop.newParticipants) = 0 THEN loop.res
        ELSE loop.res \o eventForNewParticipants(event, loop.newParticipants, cals, ids)

\* onRemoveEvent without the test of the event's access.
onRemoveEventAnyAccess(ctx, store, removed) ==
    IF removed._id = Undef THEN <<>>
    ELSE LET current == SelectSeq(store, LAMBDA d : d.eventId = removed.eventId)
         IN  [i \in DOMAIN current |-> createTxRemoveDoc(current[i]._id, SystemAccount)]

onRemoveEvent(ctx, store, removed) ==
    IF removed._id = Undef THEN <<>>
    ELSE IF removed.access # "owner" THEN <<>>
    ELSE LET current == SelectSeq(store, LAMBDA d : d.eventId = removed.eventId)
         IN  [i \in DOMAIN current |-> createTxRemoveDoc(current[i]._id, SystemAccount)]

\* store is the event store after tx was applied, removed the removedMap entry.
OnEvent(tx, store, cals, removed, ids) ==
    IF tx.kind = "create" THEN onEventCreate(tx, cals, ids)
    ELSE IF tx.kind = "update" THEN onEventUpdate(tx, store, cals, ids)
    ELSE IF tx.kind = "remove" THEN onRemoveEvent(tx, store, removed)
    ELSE <<>>

\* ---------------------------------------------------------------- actions
\* The host applies tx, runs OnEvent on it and queues what the trigger returns.
Handle(tx, from, root, rest) ==
    LET removed == RemovedDoc(events, tx)
        store == ApplyTx(events, tx)
        ids == FreeIds(store, rest) \o [i \in 1 .. MaxParts |-> Undef]
        out == OnEvent(tx, store, VisibleCalendars(calendars), removed, ids)
    IN  /\ \A i \in DOMAIN out : out[i].objectId # Undef
        /\ events' = store
        /\ pending' = rest \o out
        /\ last' = [tx |-> tx, out |-> out, removed |-> removed, from |-> from, root |-> root]
        /\ UNCHANGED <<calendars, chosen>>
        /\ UNCHANGED apart

\* The calendars a client of account acc files its events under.
OwnCalendars(acc) == {calendars[i]._id : i \in {j \in DOMAIN calendars : CalendarAccount(calendars[j]) = acc}}

\* A client creates an event of its own: TxCollectionCUD(TxCreateDoc). The
\* triggers read the store by _id and by eventId only, so the copies of
\* different logical events never meet; the model follows one at a time.
ClientCreate ==
    /\ pending = <<>> /\ last = NoLast
    /\ events = <<>>
    /\ \E acc \in Creators, parts \in ParticipantLists :
        \E cal \in OwnCalendars(acc) :
            LET parent == ParentFor(acc)
                nextId == FreeIds(events, pending)[1]
                attrs == [NoAttrs EXCEPT !.eventId = EventIdOf(nextId), !.access = "owner",
                                         !.participants = parts, !.calendar = cal,
                                         !.title = "t0", !.visibility = "public"]
                tx == createTxCollectionCUD(parent.attachedToClass, parent.attachedTo,
                          parent.collection, createTxCreateDoc(attrs, nextId, acc))
            IN  Handle(tx, "client", tx, <<>>)

\* The participant lists a client makes of list in one update: one person
\* added at the end, one taken off, or one replaced by another.
Edits(list) ==
    {Append(list, p) : p \in {q \in Persons : Len(list) < MaxParts /\ q \notin Range(list)}}
    \cup {SelectSeq(list, LAMBDA q : q # list[i]) : i \in DOMAIN list}
    \cup {[list EXCEPT ![i] = p] : i \in DOMAIN list, p \in Persons \ Range(list)}

\* The update operations a client sends for an event with the participants
\* list: a change of title, of visibility or of both, none at all, or an
\* edited participant list.
ClientOps(list) ==
    {[NoOps EXCEPT !.keys = k,
                   !.title = IF "title" \in k THEN t ELSE UndefStr,
                   !.visibility = IF "visibility" \in k THEN v ELSE UndefStr] :
        k \in SUBSET {"title", "visibility"}, t \in Titles, v \in Visibilities}
    \cup {[NoOps EXCEPT !.keys = {"participants"}, !.participants = ps] : ps \in Edits(list)}

\* The account that sends the transactions on document id: its creator.
ActorOf(id) ==
    LET doc == FindFirst(events, LAMBDA d : d._id = id, NoEvent)
    IN  IF doc._id = Undef THEN accounts[1]._id ELSE doc.createdBy

ParentOf(id) ==
    LET doc == FindFirst(events, LAMBDA d : d._id = id, NoEvent)
    IN  [attachedTo |-> doc.attachedTo, attachedToClass |-> doc.attachedToClass,
         collection |-> doc.collection]

\* The documents a client addresses: those of the store and one identifier
\* that no document carries.
TargetIds ==
    LET free == FreeIds(events, pending)
    IN  {events[i]._id : i \in DOMAIN events} \cup (IF free = <<>> THEN {} ELSE {free[1]})

AccessOf(id) == FindFirst(events, LAMBDA d : d._id = id, NoEvent).access

\* A client updates its owner event, or sends a change of title or visibility
\* for an event that is not in the store; reader copies are read-only to their
\* holders.
ClientUpdate ==
    /\ pending = <<>> /\ last = NoLast
    /\ \E id \in TargetIds :
        \E ops \in ClientOps(FindFirst(events, LAMBDA d : d._id = id, NoEvent).participants) :
        LET parent == ParentOf(id)
            tx == createTxCollectionCUD(parent.attachedToClass, parent.attachedTo,
                      parent.collection, createTxUpdateDoc(id, ops, ActorOf(id)))
        IN  /\ AccessOf(id) # "reader"
            /\ AccessOf(id) = "owner" \/ "participants" \notin ops.keys
            /\ Handle(tx, "client", tx, <<>>)

\* A client removes an event, its own copy or one that is not in the store.
ClientRemove ==
    /\ pending = <<>> /\ last = NoLast
    /\ \E id \in TargetIds :
        LET parent == ParentOf(id)
            tx == createTxCollectionCUD(parent.attachedToClass, parent.attachedTo,
                      parent.collection, createTxRemoveDoc(id, ActorOf(id)))
        IN  Handle(tx, "client", tx, <<>>)

\* The host applies the next transaction a trigger emitted and feeds it back.
HostApply ==
    /\ pending # <<>>
    /\ Handle(Head(pending), "host", last.root, Tail(pending))

\* The host is done with a client's transaction: everything the triggers
\* emitted for it is applied and their results go out of scope.
Done ==
    /\ pending = <<>> /\ last # NoLast
    /\ last' = NoLast
    /\ UNCHANGED <<events, calendars, pending, chosen>>
    /\ UNCHANGED apart

\* The calendars users hide and show again: the default calendar of account
\* 13, which has another one, and the only calendar of account 14.
Hideable == {23, 24}

\* A calendar is hidden or shown again; the triggers read { hidden: false }.
ToggleHidden ==
    /\ pending = <<>> /\ last = NoLast
    /\ \E i \in DOMAIN calendars :
        /\ calendars[i]._id \in Hideable
        /\ calendars' = [calendars EXCEPT ![i].hidden = ~@]
    /\ UNCHANGED <<events, pending, last, chosen>>
    /\ UNCHANGED apart

Calendar(id, createdBy, modifiedBy, default) ==
    [_id |-> id, createdBy |-> createdBy, modifiedBy |-> modifiedBy,
     hidden |-> FALSE, default |-> default]

Init ==
    /\ events = <<>>
    /\ calendars = << Calendar(21, AccountIdOf(2), AccountIdOf(2), FALSE),
                      Calendar(22, AccountIdOf(3), AccountIdOf(3), FALSE),
                      Calendar(23, AccountIdOf(3), AccountIdOf(3), TRUE),
                      Calendar(24, Undef, AccountIdOf(4), FALSE) >>
    /\ pending = <<>>
    /\ last = NoLast
    /\ chosen = NoChoice
    /\ Idle

Next == ClientCreate \/ ClientUpdate \/ ClientRemove \/ HostApply \/ Done \/ ToggleHidden

Spec == Init /\ [][Next]_vars

\* ---------------------------------------------------------------- calendar selection
\* The accounts whose calendars the selection is tried on.
CalAccounts == {AccountIdOf(2), AccountIdOf(3)}

\* A calendar document is added to the list handed to getCalendar.
AddCalendar ==
    /\ Len(calendars) < MaxCalList
    /\ \E createdBy \in CalAccounts \cup {Undef}, modifiedBy \in CalAccounts, default \in BOOLEAN :
        calendars' = Append(calendars,
                        Calendar(20 + Len(calendars) + 1, createdBy, modifiedBy, default))
    /\ chosen' = NoChoice
    /\ UNCHANGED <<events, pending, last>>
    /\ UNCHANGED apart

\* getCalendar is called on the list for one account.
SelectCalendar ==
    /\ \E person \in CalAccounts :
        chosen' = [person |-> person, list |-> calendars,
                   result |-> getCalendar(calendars, person)]
    /\ UNCHANGED <<events, calendars, pending, last>>
    /\ UNCHANGED apart

InitCal ==
    /\ events = <<>>
    /\ calendars = <<>>
    /\ pending = <<>>
    /\ last = NoLast
    /\ chosen = NoChoice
    /\ Idle

NextCal == AddCalendar \/ SelectCalendar

SpecCal == InitCal /\ [][NextCal]_vars

\* ---------------------------------------------------------------- account trigger
MaxHandled == 3     \* account creations handled in one run of the model

\* The ids and the emails of the accounts that are created.
AccountRefs == {"a", "b", "a_calendar"}
Emails == {"x@h", "y@h"}

\* TxProcessor.createDoc2Doc on the creation of a PersonAccount.
createDoc2DocAccount(tx) ==
    [_id |-> tx.objectId, email |-> tx.attributes.email,
     createdBy |-> tx.modifiedBy, modifiedBy |-> tx.modifiedBy]

\* OnPersonAccountCreate that names the calendar's id after the email.
OnPersonAccountCreateByEmail(tx) ==
    LET user == createDoc2DocAccount(tx)
    IN  << createTxCreateDoc([name |-> user.email, hidden |-> FALSE, visibility |-> "public"],
                             user.email \o "_calendar", user._id) >>

OnPersonAccountCreate(tx) ==
    LET user == createDoc2DocAccount(tx)
    IN  << createTxCreateDoc([name |-> user.email, hidden |-> FALSE, visibility |-> "public"],
                             user._id \o "_calendar", user._id) >>

\* The host hands the creation of a person account to the trigger.
AccountCreate ==
    /\ Len(handled) < MaxHandled
    /\ \E id \in AccountRefs, email \in Emails :
        LET tx == createTxCreateDoc([email |-> email], id, SystemAccount)
        IN  handled' = Append(handled, [tx |-> tx, out |-> OnPersonAccountCreate(tx)])
    /\ UNCHANGED <<events, calendars, pending, last, chosen, storage, run, done>>

InitAcc ==
    /\ events = <<>>
    /\ calendars = <<>>
    /\ pending = <<>>
    /\ last = NoLast
    /\ chosen = NoChoice
    /\ Idle

NextAcc == AccountCreate

SpecAcc == InitAcc /\ [][NextAcc]_vars

\* ---------------------------------------------------------------- content restore
\* Strings the tool takes apart or puts together (attribute values, blob ids)
\* are sequences of tokens, with ":" and "%" tokens of their own.

\* value.includes(':')
Includes(value, token) == \E i \in DOMAIN value : value[i] = token

\* value.split(':')[0]
SplitHead(value, token) ==
    IF Includes(value, token)
    THEN LET k == CHOOSE i \in DOMAIN value :
                     value[i] = token /\ \A j \in DOMAIN value : j < i => value[j] # token
         IN  SubSeq(value, 1, k - 1)
    ELSE value

\* makeCollabYdocId(makeDocCollabId(doc, attribute)): `${objectId}%${objectAttr}`
makeCollabYdocId(objectId, objectAttr) == objectId \o <<"%", objectAttr>>

\* The documents the iterators return, in their order.
ControlledDocs ==
    << [_id |-> <<"c1">>, _class |-> "ControlledDocument"],
       [_id |-> <<"c2">>, _class |-> "ControlledDocumentSnapshot"],
       [_id |-> <<"c3">>, _class |-> "ControlledDocument"],
       [_id |-> <<"c4">>, _class |-> "ControlledDocument"] >>
WikiDocs == << [_id |-> <<"w1">>, _class |-> "Document"] >>

NoAttributes == [a \in {} |-> <<>>]

\* db.collection(DOMAIN_TX).findOne({ _class: TxCreateDoc, objectId, objectClass }):
\* c1 and c2 were created with content in the old format, c3 with a content
\* that has no ':', and no creation of c4 is on record.
FindCreateTx(doc) ==
    CASE doc._id = <<"c1">> ->
            [found |-> TRUE, attributes |-> [content |-> <<"b1", ":", "HEAD", ":", "0">>]]
      [] doc._id = <<"c2">> ->
            [found |-> TRUE, attributes |-> [content |-> <<"b2", ":", "HEAD", ":", "0">>]]
      [] doc._id = <<"c3">> ->
            [found |-> TRUE, attributes |-> [content |-> <<"b1">>]]
      [] OTHER -> [found |-> FALSE, attributes |-> NoAttributes]

\* A blob is a collaborative document: a function from the names of its
\* shared fields to their text.
Put(store, id, blob) == [x \in DOMAIN store \cup {id} |-> IF x = id THEN blob ELSE store[x]]

\* restoreControlledDocContentForDoc that does not look for content at the
\* new id.
restoreControlledDocContentForDocOverwrite(store, dryRun, doc, attribute, fails) ==
    LET tx == FindCreateTx(doc)
        attribures == IF tx.found THEN tx.attributes ELSE NoAttributes
        isNull == attribute \notin DOMAIN attribures
        value == IF isNull THEN <<>> ELSE attribures[attribute]
        currentYdocId == SplitHead(value, ":")
        ydocId == makeCollabYdocId(doc._id, attribute)
    IN  IF isNull \/ ~Includes(value, ":") THEN [result |-> FALSE, storage |-> store]
        ELSE IF ~dryRun
        THEN IF currentYdocId \notin DOMAIN store THEN [result |-> FALSE, storage |-> store]
             ELSE IF fails THEN [result |-> FALSE, storage |-> store]
             ELSE [result |-> TRUE, storage |-> Put(store, ydocId, store[currentYdocId])]
        ELSE [result |-> TRUE, storage |-> store]

\* restoreControlledDocContentForDoc: what it returns and the storage it
\* leaves. fails tells that the storage throws on read or put.
restoreControlledDocContentForDoc(store, dryRun, doc, attribute, fails) ==
    LET tx == FindCreateTx(doc)
        attribures == IF tx.found THEN tx.attributes ELSE NoAttributes
        isNull == attribute \notin DOMAIN attribures
        value == IF isNull THEN <<>> ELSE attribures[attribute]
        currentYdocId == SplitHead(value, ":")
        ydocId == makeCollabYdocId(doc._id, attribute)
    IN  IF isNull \/ ~Includes(value, ":") THEN [result |-> FALSE, storage |-> store]
        ELSE IF ydocId \in DOMAIN store THEN [result |-> FALSE, storage |-> store]
        ELSE IF ~dryRun
        THEN IF currentYdocId \notin DOMAIN store THEN [result |-> FALSE, storage |-> store]
             ELSE IF fails THEN [result |-> FALSE, storage |-> store]
             ELSE [result |-> TRUE, storage |-> Put(store, ydocId, store[currentYdocId])]
        ELSE [result |-> TRUE, storage |-> store]

\* The loop of restoreControlledDocContentMongo over docs[i..].
RECURSIVE ControlledLoop(_, _, _, _, _, _)
ControlledLoop(docs, i, store, dryRun, processedCnt, restoredCnt) ==
    IF i > Len(docs)
    THEN [storage |-> store, processedCnt |-> processedCnt, restoredCnt |-> restoredCnt]
    ELSE LET r == restoreControlledDocContentForDoc(store, dryRun, docs[i], "content", FALSE)
         IN  ControlledLoop(docs, i + 1, r.storage, dryRun, processedCnt + 1,
                            IF r.result THEN restoredCnt + 1 ELSE restoredCnt)

restoreControlledDocContentMongo(store, dryRun) ==
    ControlledLoop(ControlledDocs, 1, store, dryRun, 0, 0)

\* loadCollabYdoc: the document stored under the collaborative id, if any.
loadCollabYdoc(store, objectId, objectAttr) ==
    LET id == makeCollabYdocId(objectId, objectAttr)
    IN  IF id \in DOMAIN store THEN [defined |-> TRUE, ydoc |-> store[id]]
        ELSE [defined |-> FALSE, ydoc |-> NoAttributes]

\* yDocCopyXmlField(ydoc, from, to)
yDocCopyXmlField(ydoc, from, to) ==
    [f \in DOMAIN ydoc \cup {to} |-> IF f = to THEN ydoc[from] ELSE ydoc[f]]

\* storageAdapter.stat(...) without await: a promise, whatever the storage holds.
StatPromise == "promise"

\* The body of the loop of restoreWikiContentMongo that saves in a dry run too.
restoreWikiDocAlways(store, dryRun, doc, fails) ==
    LET stat == StatPromise
        ydoc1 == loadCollabYdoc(store, doc._id, "content")
        ydoc2 == loadCollabYdoc(store, doc._id, "description")
        fixed == IF "description" \in DOMAIN ydoc2.ydoc /\ "content" \notin DOMAIN ydoc2.ydoc
                 THEN yDocCopyXmlField(ydoc2.ydoc, "description", "content")
                 ELSE ydoc2.ydoc
    IN  IF stat = UndefStr THEN [restored |-> FALSE, storage |-> store]
        ELSE IF ydoc1.defined /\ "content" \in DOMAIN ydoc1.ydoc
             THEN [restored |-> FALSE, storage |-> store]
        ELSE IF ~ydoc2.defined THEN [restored |-> FALSE, storage |-> store]
        ELSE IF fails THEN [restored |-> FALSE, storage |-> store]
        ELSE [restored |-> TRUE,
              storage |-> Put(store, makeCollabYdocId(doc._id, "content"), fixed)]

\* The body of the loop of restoreWikiContentMongo for one document: whether
\* restoredCnt goes up and the storage it leaves. fails tells that
\* saveCollabYdoc throws.
restoreWikiDoc(store, dryRun, doc, fails) ==
    LET stat == StatPromise
        ydoc1 == loadCollabYdoc(store, doc._id, "content")
        ydoc2 == loadCollabYdoc(store, doc._id, "description")
        fixed == IF "description" \in DOMAIN ydoc2.ydoc /\ "content" \notin DOMAIN ydoc2.ydoc
                 THEN yDocCopyXmlField(ydoc2.ydoc, "description", "content")
                 ELSE ydoc2.ydoc
    IN  IF stat = UndefStr THEN [restored |-> FALSE, storage |-> store]
        ELSE IF ydoc1.defined /\ "content" \in DOMAIN ydoc1.ydoc
             THEN [restored |-> FALSE, storage |-> store]
        ELSE IF ~ydoc2.defined THEN [restored |-> FALSE, storage |-> store]
        ELSE IF dryRun THEN [restored |-> TRUE, storage |-> store]
        ELSE IF fails THEN [restored |-> FALSE, storage |-> store]
        ELSE [restored |-> TRUE,
              storage |-> Put(store, makeCollabYdocId(doc._id, "content"), fixed)]

RECURSIVE WikiLoop(_, _, _, _, _, _, _)
WikiLoop(docs, i, store, dryRun, fails, processedCnt, restoredCnt) ==
    IF i > Len(docs)
    THEN [storage |-> store, processedCnt |-> processedCnt, restoredCnt |-> restoredCnt]
    ELSE LET r == restoreWikiDoc(store, dryRun, docs[i], fails)
         IN  WikiLoop(docs, i + 1, r.storage, dryRun, fails, processedCnt + 1,
                      IF r.restored THEN restoredCnt + 1 ELSE restoredCnt)

restoreWikiContentMongo(store, dryRun, fails) ==
    WikiLoop(WikiDocs, 1, store, dryRun, fails, 0, 0)

\* The ids of the documents whose new blob is in store.
RestoredIn(store) ==
    {ControlledDocs[i]._id : i \in {j \in DOMAIN ControlledDocs :
        makeCollabYdocId(ControlledDocs[j]._id, "content") \in DOMAIN store}}

\* The tool restores the content of one controlled document.
RestoreDoc ==
    /\ \E i \in DOMAIN ControlledDocs, dryRun \in BOOLEAN, fails \in BOOLEAN :
        LET doc == ControlledDocs[i]
            r == restoreControlledDocContentForDoc(storage, dryRun, doc, "content", fails)
        IN  /\ storage' = r.storage
            /\ run' = [op |-> "doc", dryRun |-> dryRun, fails |-> fails, doc |-> doc._id,
                       result |-> r.result, restoredCnt |-> IF r.result THEN 1 ELSE 0,
                       before |-> storage, prior |-> done]
            /\ done' = IF r.result /\ ~dryRun THEN done \cup {doc._id} ELSE done
    /\ UNCHANGED <<events, calendars, pending, last, chosen, handled>>

\* The tool runs restoreControlledDocContentMongo over all controlled documents.
RestoreControlled ==
    /\ \E dryRun \in BOOLEAN :
        LET r == restoreControlledDocContentMongo(storage, dryRun)
        IN  /\ storage' = r.storage
            /\ run' = [op |-> "controlled", dryRun |-> dryRun, fails |-> FALSE, doc |-> <<>>,
                       result |-> FALSE, restoredCnt |-> r.restoredCnt,
                       before |-> storage, prior |-> done]
            /\ done' = done \cup (RestoredIn(r.storage) \ RestoredIn(storage))
    /\ UNCHANGED <<events, calendars, pending, last, chosen, handled>>

\* The tool runs restoreWikiContentMongo over all wiki documents.
RestoreWiki ==
    /\ \E dryRun \in BOOLEAN, fails \in BOOLEAN :
        LET r == restoreWikiContentMongo(storage, dryRun, fails)
        IN  /\ storage' = r.storage
            /\ run' = [op |-> "wiki", dryRun |-> dryRun, fails |-> fails, doc |-> <<>>,
                       result |-> FALSE, restoredCnt |-> r.restoredCnt,
                       before |-> storage, prior |-> done]
    /\ UNCHANGED <<events, calendars, pending, last, chosen, handled, done>>

\* The blobs the storage may hold at the start: old content under b1 and b2,
\* content somebody wrote since under the new ids of c1 and c2, and any
\* collaborative document under the two ids of the wiki document.
Absent == [f \in {"absent"} |-> ""]
Ydocs == {[f \in S |-> IF f = "content" THEN "c" ELSE "d"] : S \in SUBSET {"content", "description"}}
BlobChoices ==
    [id \in { <<"b1">>, <<"b2">>, <<"c1", "%", "content">>, <<"c2", "%", "content">>,
              <<"w1", "%", "content">>, <<"w1", "%", "description">> } |->
        IF id \in { <<"b1">>, <<"b2">> } THEN {Absent, [content |-> "old"]}
        ELSE IF id[1] = "w1" THEN {Absent} \cup Ydocs
        ELSE {Absent, [content |-> "new"]}]

InitRestore ==
    /\ events = <<>>
    /\ calendars = <<>>
    /\ pending = <<>>
    /\ last = NoLast
    /\ chosen = NoChoice
    /\ handled = <<>>
    /\ run = NoRun
    /\ done = {}
    /\ \E pick \in [DOMAIN BlobChoices -> UNION {BlobChoices[id] : id \in DOMAIN BlobChoices}] :
          /\ \A id \in DOMAIN BlobChoices : pick[id] \in BlobChoices[id]
          /\ storage = [id \in {x \in DOMAIN BlobChoices : pick[x] # Absent} |-> pick[id]]

NextRestore == RestoreDoc \/ RestoreControlled \/ RestoreWiki

SpecRestore == InitRestore /\ [][NextRestore]_vars

\* ---------------------------------------------------------------- properties
\* What the properties say about one invocation is read off the state after
\* it: events is the store the trigger read, last.tx the transaction it was
\* handed, last.removed the removedMap entry and last.out what it returned.

AccountOfPerson(p) ==
    IF \E i \in DOMAIN accounts : accounts[i].person = p
    THEN accounts[CHOOSE i \in DOMAIN accounts : accounts[i].person = p]._id
    ELSE Undef

PersonOfAccount(a) ==
    IF \E i \in DOMAIN accounts : accounts[i]._id = a
    THEN accounts[CHOOSE i \in DOMAIN accounts : accounts[i]._id = a].person
    ELSE Undef

\* Account a has a calendar that is not hidden.
HasCalendar(a) ==
    \E i \in DOMAIN calendars :
        /\ ~calendars[i].hidden
        /\ IF calendars[i].createdBy # Undef THEN calendars[i].createdBy = a
           ELSE calendars[i].modifiedBy = a

\* The holder of a copy as the triggers resolve it: the person of the account
\* the copy is attributed to, provided the copy's calendar is not hidden.
HolderOf(c) ==
    IF \E i \in DOMAIN calendars : ~calendars[i].hidden /\ calendars[i]._id = c.calendar
    THEN PersonOfAccount(c.createdBy)
    ELSE Undef

Docs == Range(events)
Out == Range(last.out)
OutOf(kind) == {i \in DOMAIN last.out : last.out[i].kind = kind}

\* The event the handled transaction is about, as the store holds it.
Target == IF \E d \in Docs : d._id = last.tx.objectId
          THEN CHOOSE d \in Docs : d._id = last.tx.objectId
          ELSE NoEvent

\* The other copies of the target's logical event.
Siblings == {d \in Docs : d.eventId = Target.eventId /\ d._id # Target._id}

OwnerCreate == last.tx.kind = "create" /\ last.tx.attributes.access = "owner"

\* An update of an owner event that changes a field other than visibility.
OwnerUpdate ==
    /\ last.tx.kind = "update"
    /\ Target.access = "owner"
    /\ last.tx.operations.keys \ {"visibility"} # {}

\* The participants OnEvent owes a new copy on an owner create.
Invited ==
    {p \in Range(Target.participants) :
        /\ AccountOfPerson(p) # Undef
        /\ AccountOfPerson(p) # Target.createdBy
        /\ HasCalendar(AccountOfPerson(p))}

\* C1: on the create of an owner event OnEvent returns creations only, one for
\* each participant that is not the creator and has an account and a calendar,
\* and none for anybody else.
C1_CreateForInvited ==
    OwnerCreate =>
        /\ \A t \in Out : t.kind = "create"
        /\ \A p \in Invited :
              Cardinality({i \in DOMAIN last.out : last.out[i].modifiedBy = AccountOfPerson(p)}) = 1
        /\ \A t \in Out : \E p \in Invited : t.modifiedBy = AccountOfPerson(p)

\* An owner event with a participant without account and one with account and
\* calendar was created, and one copy was emitted.
C1_Witness ==
    /\ OwnerCreate
    /\ \E p \in Range(Target.participants) : AccountOfPerson(p) = Undef
    /\ Len(last.out) = 1
    /\ Invited # {}

\* The operations of the handled update without visibility.
PropagatedOps ==
    [keys |-> last.tx.operations.keys \ {"visibility"},
     title |-> last.tx.operations.title,
     visibility |-> UndefStr,
     participants |-> last.tx.operations.participants]

C3_RemoveLeavers ==
    OwnerUpdate =>
        \A c \in Siblings :
            HolderOf(c) \notin Range(Target.participants) =>
                /\ \E i \in OutOf("remove") : last.out[i].objectId = c._id
                /\ \A i \in OutOf("update") : last.out[i].objectId # c._id

\* The owner took one of two holders off the participant list: one update and
\* one removal.
C3_Witness ==
    /\ OwnerUpdate
    /\ "participants" \in last.tx.operations.keys
    /\ Cardinality(Siblings) = 2
    /\ Cardinality(OutOf("update")) = 1
    /\ Cardinality(OutOf("remove")) = 1
    /\ Len(last.out) = 2

\* Person p has a copy of the target's logical event: the owner copy, or
\* another one that resolves to p.
HasCopy(p) ==
    \/ AccountOfPerson(p) = Target.createdBy
    \/ \E c \in Siblings : HolderOf(c) = p

CreationsFor(p) == {i \in OutOf("create") : last.out[i].modifiedBy = AccountOfPerson(p)}

C5_RemoveCascade ==
    last.tx.kind = "remove" =>
        /\ last.removed.access = "owner" =>
              /\ \A t \in Out : t.kind = "remove"
              /\ \A d \in Docs :
                    d.eventId = last.removed.eventId =>
                        Cardinality({i \in DOMAIN last.out : last.out[i].objectId = d._id}) = 1
              /\ \A t \in Out : \E d \in Docs :
                    d.eventId = last.removed.eventId /\ d._id = t.objectId
              /\ \A t \in Out : t.objectId # last.removed._id
        /\ last.removed.access = "reader" => last.out = <<>>

\* An owner event with two copies was removed: two removals.
C5_Witness ==
    /\ last.tx.kind = "remove"
    /\ last.removed.access = "owner"
    /\ Cardinality(Docs) = 2
    /\ Len(last.out) = 2

\* A reader copy was removed next to its owner event: nothing emitted.
C5_ReaderWitness ==
    /\ last.tx.kind = "remove"
    /\ last.removed.access = "reader"
    /\ \E d \in Docs : d.eventId = last.removed.eventId /\ d.access = "owner"

\* C7: an update that changes visibility only makes OnEvent emit nothing.
C7_VisibilityOnly ==
    (last.tx.kind = "update" /\ last.tx.operations.keys = {"visibility"}) => last.out = <<>>

\* The visibility of an owner event changed while it had a copy and a
\* participant who is owed one.
C7_Witness ==
    /\ last.tx.kind = "update"
    /\ last.tx.operations.keys = {"visibility"}
    /\ Target.access = "owner"
    /\ Siblings # {}
    /\ \E p \in Range(Target.participants) :
          ~HasCopy(p) /\ AccountOfPerson(p) # Undef /\ HasCalendar(AccountOfPerson(p))

\* The documents of logical event eid attributed to account a.
CopiesOf(eid, a) == {d \in Docs : d.eventId = eid /\ d.createdBy = a}

\* C6 as stated: once the emitted transactions are applied, every participant
\* of an owner event holds exactly one copy of it.
C6_OneCopyEach ==
    (pending = <<>> /\ last.from # "none") =>
        \A o \in Docs :
            o.access = "owner" =>
                \A p \in Range(o.participants) :
                    Cardinality({d \in Docs :
                        d.eventId = o.eventId /\ PersonOfAccount(d.createdBy) = p}) = 1

\* The owner create or non-visibility owner update that started the round has
\* been handled and everything emitted for it is applied.
Reconciled(o) ==
    /\ pending = <<>>
    /\ last.root.kind \in {"create", "update"}
    /\ last.root.kind = "update" => last.root.operations.keys \ {"visibility"} # {}
    /\ o._id = last.root.objectId
    /\ o.access = "owner"

\* C6, amended: nobody ever holds two copies of one logical event, and once an
\* owner create or non-visibility update is handled and the emitted
\* transactions are applied, the owner and every participant whose account
\* and calendar resolve hold exactly one copy.
C6_OneCopyIfResolvable ==
    /\ \A d \in Docs : \A a \in AccountIds : Cardinality(CopiesOf(d.eventId, a)) <= 1
    /\ \A o \in Docs :
          Reconciled(o) =>
              /\ Cardinality(CopiesOf(o.eventId, o.createdBy)) = 1
              /\ \A p \in Range(o.participants) :
                    (AccountOfPerson(p) # Undef /\ HasCalendar(AccountOfPerson(p)))
                        => Cardinality(CopiesOf(o.eventId, AccountOfPerson(p))) = 1

\* An owner update was reconciled for an event with a holder of a copy and a
\* participant without account.
C6_Witness ==
    \E o \in Docs :
        /\ Reconciled(o)
        /\ last.root.kind = "update"
        /\ last.from = "host"
        /\ Cardinality(Docs) = 2
        /\ \E p \in Range(o.participants) : AccountOfPerson(p) = Undef

\* C8: a transaction OnEvent emitted, applied and handed back to OnEvent,
\* makes it emit nothing, so every step taken while transactions are in flight
\* uses one up and the round ends after as many steps as the owner's
\* transaction emitted.
C8_NoCascade ==
    [][pending # <<>> =>
        /\ last'.from = "host"
        /\ last'.tx = Head(pending)
        /\ last'.out = <<>>
        /\ pending' = Tail(pending)]_vars

\* The creation of a reader copy came back to OnEvent; its participants
\* include one who would be owed a copy if the event were an owner event.
C8_Witness ==
    /\ last.from = "host"
    /\ last.tx.kind = "create"
    /\ \E p \in Range(last.tx.attributes.participants) :
          /\ AccountOfPerson(p) # Undef
          /\ AccountOfPerson(p) # last.tx.modifiedBy
          /\ HasCalendar(AccountOfPerson(p))

Policy(list, Mine(_)) ==
    LET mine == {i \in DOMAIN list : Mine(list[i])}
        defaults == {i \in mine : list[i].default}
        First(S) == CHOOSE i \in S : \A j \in S : i <= j
    IN  IF defaults # {} THEN list[First(defaults)]._id
        ELSE IF mine # {} THEN list[First(mine)]._id
        ELSE Undef

\* C10 as stated: the selection considers the calendars created or last
\* modified by the account.
C10_CreatedOrModified ==
    chosen.person # Undef =>
        chosen.result =
            Policy(chosen.list,
                   LAMBDA c : c.createdBy = chosen.person \/ c.modifiedBy = chosen.person)

\* C10, amended: the selection considers the calendars created by the account
\* and, of those without a recorded creator, the ones it modified last; of
\* these it picks the first default one, else the first, else none.
C10_CreatorElseModifier ==
    chosen.person # Undef =>
        chosen.result =
            Policy(chosen.list,
                   LAMBDA c : IF c.createdBy # Undef THEN c.createdBy = chosen.person
                              ELSE c.modifiedBy = chosen.person)

\* A default calendar of the account was picked over an earlier one of its
\* calendars, with a calendar in the list that the account only modified.
C10_Witness ==
    /\ chosen.person # Undef
    /\ Len(chosen.list) = 3
    /\ \E i, j, k \in DOMAIN chosen.list :
          /\ i < j
          /\ chosen.list[i].createdBy = chosen.person /\ ~chosen.list[i].default
          /\ chosen.list[j].createdBy = chosen.person /\ chosen.list[j].default
          /\ chosen.list[k].createdBy \notin {chosen.person, Undef}
          /\ chosen.list[k].modifiedBy = chosen.person
          /\ chosen.result = chosen.list[j]._id

\* The participants of the target that hold no copy and whose account and
\* calendar resolve.
Owed(p) == ~HasCopy(p) /\ AccountOfPerson(p) # Undef /\ HasCalendar(AccountOfPerson(p))

\* C11: an update whose target is not in the store and a removal whose
\* document is not in the removed-document cache make OnEvent return the empty
\* list; a participant without account or without calendar gets no creation,
\* and OnEvent still returns the creations owed to the other participants and
\* a transaction for every other copy.
C11_UnresolvedSkipped ==
    /\ (last.tx.kind = "update" /\ Target._id = Undef) => last.out = <<>>
    /\ (last.tx.kind = "remove" /\ last.removed._id = Undef) => last.out = <<>>
    /\ (OwnerCreate \/ OwnerUpdate) =>
          /\ \A t \in Out : t.kind \in {"create", "update", "remove"}
          /\ \A p \in Range(Target.participants) :
                /\ (AccountOfPerson(p) = Undef \/ ~HasCalendar(AccountOfPerson(p)))
                      => CreationsFor(p) = {}
                /\ Owed(p) => Cardinality(CreationsFor(p)) = 1
          /\ \A c \in Siblings : \E i \in DOMAIN last.out : last.out[i].objectId = c._id

\* An owner event was created whose first participant has an account and no
\* calendar that is shown, and whose second participant got a copy.
C11_Witness ==
    /\ OwnerCreate
    /\ Len(Target.participants) = 2
    /\ AccountOfPerson(Target.participants[1]) # Undef
    /\ ~HasCalendar(AccountOfPerson(Target.participants[1]))
    /\ Len(last.out) = 1
    /\ last.out[1].modifiedBy = AccountOfPerson(Target.participants[2])

\* An update and a removal of documents the store does not hold were handled.
C11_MissingTargetWitness ==
    /\ last.tx.kind \in {"update", "remove"}
    /\ Target._id = Undef /\ last.removed._id = Undef
    /\ events # <<>>

\* The account the triggers take for the owner of the target.
OwnerAccount == Coalesce(Target.createdBy, Target.modifiedBy)

\* C13: on an owner update no emitted transaction targets the edited event
\* itself, and neither on create nor on update is a creation emitted for the
\* owner's account, also when the owner's person is among the participants.
C13_NothingForOwner ==
    /\ OwnerUpdate => \A t \in Out : t.objectId # Target._id
    /\ (OwnerCreate \/ OwnerUpdate) =>
          \A t \in Out : t.kind = "create" => t.modifiedBy # OwnerAccount

\* The owner, who is among the participants, changed the event while another
\* participant held a copy and one more was owed a copy.
C13_Witness ==
    /\ OwnerUpdate
    /\ PersonOfAccount(OwnerAccount) \in Range(Target.participants)
    /\ Siblings # {}
    /\ last.out # <<>>

\* The parent record a document hangs on.
ParentRecord(d) ==
    [attachedTo |-> d.attachedTo, attachedToClass |-> d.attachedToClass,
     collection |-> d.collection]

\* C14: every creation OnEvent emits on an owner create or update carries the
\* owner event's eventId, title, participants and visibility, has access
\* reader, names the calendar the selection policy picks for the account it is
\* attributed to, is attributed to the account of a participant, and is
\* wrapped as a child of the owner event's parent record.
C14_CopyOfOwner ==
    \A t \in Out :
        t.kind = "create" =>
            /\ OwnerCreate \/ OwnerUpdate
            /\ t.attributes.eventId = Target.eventId
            /\ t.attributes.title = Target.title
            /\ t.attributes.participants = Target.participants
            /\ t.attributes.visibility = Target.visibility
            /\ t.attributes.access = "reader"
            /\ t.attributes.calendar # Undef
            /\ t.attributes.calendar =
                  Policy(VisibleCalendars(calendars),
                         LAMBDA c : IF c.createdBy # Undef THEN c.createdBy = t.modifiedBy
                                    ELSE c.modifiedBy = t.modifiedBy)
            /\ \E p \in Range(Target.participants) : t.modifiedBy = AccountOfPerson(p)
            /\ t.parent = ParentRecord(Target)

\* After a change of title the owner added a participant whose default
\* calendar is not the first of their calendars: the creation carries the new
\* title and the default calendar.
C14_Witness ==
    /\ OwnerUpdate
    /\ Target.title = "t1"
    /\ "participants" \in last.tx.operations.keys
    /\ \E t \in Out :
          /\ t.kind = "create"
          /\ t.attributes.calendar = 23
          /\ t.parent.attachedTo = "issue1"

PosInStore(id) == CHOOSE i \in DOMAIN events : events[i]._id = id
PosInList(p) == CHOOSE i \in DOMAIN Target.participants : Target.participants[i] = p

\* C15: on an owner update the updates and removals come in the order of the
\* copies in the store's result and ahead of every creation; on an owner
\* create the creations come in the order of the participant list.
C15_EmittedInOrder ==
    /\ OwnerUpdate =>
          \A i, j \in DOMAIN last.out :
              i < j =>
                  /\ last.out[i].kind = "create" => last.out[j].kind = "create"
                  /\ (last.out[i].kind # "create" /\ last.out[j].kind # "create")
                        => PosInStore(last.out[i].objectId) < PosInStore(last.out[j].objectId)
    /\ OwnerCreate =>
          \A i, j \in DOMAIN last.out :
              i < j => PosInList(PersonOfAccount(last.out[i].modifiedBy))
                          < PosInList(PersonOfAccount(last.out[j].modifiedBy))

\* An owner update made OnEvent emit transactions for two copies and a
\* creation.
C15_Witness ==
    /\ OwnerUpdate
    /\ Len(last.out) = 3
    /\ last.out[1].kind # "create"
    /\ last.out[2].kind # "create"
    /\ last.out[3].kind = "create"

\* An owner update made OnEvent emit for two copies that the store returns in
\* another order than that of their identifiers.
C15_StoreOrderWitness ==
    /\ OwnerUpdate
    /\ Len(last.out) = 2
    /\ \A t \in Out : t.kind # "create"
    /\ last.out[1].objectId > last.out[2].objectId

\* C16: on an owner update that changes a non-visibility field every other
\* copy of the logical event is the target of exactly one emitted
\* transaction, an update or a removal.
C16_OneTxPerCopy ==
    OwnerUpdate =>
        \A c \in Siblings :
            /\ Cardinality({i \in DOMAIN last.out : last.out[i].objectId = c._id}) = 1
            /\ \A i \in DOMAIN last.out :
                  last.out[i].objectId = c._id => last.out[i].kind \in {"update", "remove"}

\* The owner changed the title while one copy sat in a calendar that is shown
\* and one in a calendar that is hidden: an update and a removal.
C16_Witness ==
    /\ OwnerUpdate
    /\ "participants" \notin last.tx.operations.keys
    /\ Cardinality(Siblings) = 2
    /\ \E c \in Siblings : HolderOf(c) = Undef
    /\ \E c \in Siblings : HolderOf(c) # Undef
    /\ Len(last.out) = 2

\* C17: on an owner update no account gets both the removal of its copy and
\* the creation of a new one.
C17_NoRemoveAndCreate ==
    OwnerUpdate =>
        \A c \in Siblings :
            (\E i \in OutOf("remove") : last.out[i].objectId = c._id)
                => \A i \in OutOf("create") : last.out[i].modifiedBy # c.createdBy

\* C12: for every account creation the trigger returns exactly one
\* transaction, the creation of a calendar that is not hidden, is public, is
\* named after the account's email and is attributed to the account; two
\* handled creations get the same calendar id exactly when they are of the
\* same account id, whatever their emails.
C12_OneCalendarPerAccount ==
    /\ \A i \in DOMAIN handled :
          LET h == handled[i]
          IN  /\ Len(h.out) = 1
              /\ h.out[1].kind = "create"
              /\ h.out[1].attributes =
                    [name |-> h.tx.attributes.email, hidden |-> FALSE, visibility |-> "public"]
              /\ h.out[1].modifiedBy = h.tx.objectId
    /\ \A i, j \in DOMAIN handled :
          (handled[i].out[1].objectId = handled[j].out[1].objectId)
              <=> (handled[i].tx.objectId = handled[j].tx.objectId)

\* The creation of one account was handled twice, with different emails, and
\* so was that of an account whose id ends like a calendar id of the first.
C12_Witness ==
    \E i, j, k \in DOMAIN handled :
        /\ i < j
        /\ handled[i].tx.objectId = "a" /\ handled[j].tx.objectId = "a"
        /\ handled[i].tx.attributes.email # handled[j].tx.attributes.email
        /\ handled[k].tx.objectId = "a_calendar"
        /\ handled[k].tx.attributes.email = handled[i].tx.attributes.email

\* The new blob id of the controlled document with id docId.
NewIdOf(docId) == makeCollabYdocId(docId, "content")

\* The blobs that were in the storage before the last call are in it unchanged.
NothingOverwritten == \A id \in DOMAIN run.before : id \in DOMAIN storage /\ storage[id] = run.before[id]

\* C18: a call of restoreControlledDocContentForDoc on a document whose new
\* blob id already holds content, or that an earlier call that was no dry run
\* restored, returns false and leaves the storage as it was; a run over all
\* documents overwrites no blob and counts no document restored before.
C18_NoOverwrite ==
    /\ run.op = "doc" =>
          /\ NothingOverwritten
          /\ (NewIdOf(run.doc) \in DOMAIN run.before \/ run.doc \in run.prior)
                => (run.result = FALSE /\ storage = run.before)
    /\ run.op = "controlled" =>
          /\ NothingOverwritten
          /\ run.restoredCnt <= Cardinality({i \in DOMAIN ControlledDocs :
                                    /\ ControlledDocs[i]._id \notin run.prior
                                    /\ NewIdOf(ControlledDocs[i]._id) \notin DOMAIN run.before})

\* A document that was restored is handed to the function again, not as a dry
\* run, while its old blob is still in the storage.
C18_Witness ==
    /\ run.op = "doc"
    /\ ~run.dryRun /\ ~run.fails
    /\ run.doc = <<"c1">>
    /\ run.doc \in run.prior
    /\ <<"b1">> \in DOMAIN storage
    /\ storage[NewIdOf(run.doc)] = storage[<<"b1">>]

\* C19: a dry run of restoreWikiContentMongo or of
\* restoreControlledDocContentMongo leaves the storage as it was.
C19_DryRunWritesNothing ==
    (run.op \in {"wiki", "controlled"} /\ run.dryRun) => storage = run.before

\* A dry run over the wiki documents counted a document whose content a run
\* that is no dry run would write.
C19_Witness ==
    /\ run.op = "wiki"
    /\ run.dryRun
    /\ run.restoredCnt = 1
    /\ <<"w1", "%", "content">> \notin DOMAIN storage
    /\ "description" \in DOMAIN storage[<<"w1", "%", "description">>]

\* A dry run over the controlled documents counted two documents.
C19_ControlledWitness ==
    /\ run.op = "controlled"
    /\ run.dryRun
    /\ run.restoredCnt = 2

\* C20: when a dry run of restoreControlledDocContentForDoc is followed by a
\* call on the same document that is no dry run and meets no storage failure,
\* both return the same; and a dry run over all controlled documents followed
\* by a run that is none counts the same number of restored documents.
C20_DryRunPredicts ==
    [][/\ (/\ run.op = "doc" /\ run.dryRun
           /\ run'.op = "doc" /\ ~run'.dryRun /\ ~run'.fails
           /\ run'.doc = run.doc)
              => run'.result = run.result
       /\ (/\ run.op = "controlled" /\ run.dryRun
           /\ run'.op = "controlled" /\ ~run'.dryRun)
              => run'.restoredCnt = run.restoredCnt]_vars

====
